---- MODULE Spec2Model ----
(***************************************************************************)
(* Intrusive circular double linked lists of the micro-os-plus utils-lists *)
(* package: the list nodes (a pair of pointers), one statically allocated  *)
(* list (head in BSS, zero filled) and one regular list (head initialised  *)
(* by its constructor), in a build with assertions enabled.                *)
(*                                                                         *)
(* Memory is a record m = [previous |-> f, next |-> g] of two functions    *)
(* from cells (the nodes and the two list heads) to pointers.  Every       *)
(* member function is an operator from a memory to a result record that    *)
(* holds the memory it leaves and the assertion that failed, if any; the   *)
(* pointer writes are applied one after the other, in the order of the     *)
(* code, each reading the memory the previous one left.                    *)
(***************************************************************************)
EXTENDS Integers, Sequences, FiniteSets, TLC

\* Number of list elements the callers own.
MaxNodes == 3

\* The null pointer.
NULL == 0

Nodes == 1 .. MaxNodes

\* The head_ member of the statically allocated list and of the regular list.
StaticHead == MaxNodes + 1
DynamicHead == MaxNodes + 2

Lists == {StaticHead, DynamicHead}
Cells == Nodes \cup Lists
Pointers == Cells \cup {NULL}

\* No assertion failed.
NoFail == "none"

\* The offset of the link member in the objects that own the nodes.
LinkOffset == 1

\* The threads that link a node to the static list at the same time; thread
\* t links node t.
MaxThreads == 2
Threads == 1 .. MaxThreads

\* The size of an owning object: the link member lies inside it.
ObjectSize == LinkOffset + 1

VARIABLES
  previous_,  \* previous_[c]: the previous_ member of cell c
  next_,      \* next_[c]: the next_ member of cell c
  life,       \* the regular list: "raw" storage, "alive", or "destroyed"
  failed,     \* the assertion that aborted the program, or NoFail
  last,       \* the last call made: its arguments, code path and result
  threads     \* the threads inside link (): lock discipline, position, locals

vars == <<previous_, next_, life, failed, last, threads>>

Mem == [previous |-> previous_, next |-> next_]

-----------------------------------------------------------------------------
(* Pointer accessors.                                                      *)

set_next(m, c, n) == [m EXCEPT !.next[c] = n]

set_previous(m, c, n) == [m EXCEPT !.previous[c] = n]

\* Reset the two pointers of a node to null.
nullify(m, c) == set_previous(set_next(m, c, NULL), c, NULL)

-----------------------------------------------------------------------------
(* static_double_list_links                                                *)

linked(m, n) ==
  IF m.next[n] # NULL /\ m.previous[n] # NULL
    THEN [ret |-> TRUE, fail |-> NoFail]
  ELSE IF m.next[n] # NULL
    THEN [ret |-> FALSE, fail |-> "linked: next_ == nullptr"]
  ELSE IF m.previous[n] # NULL
    THEN [ret |-> FALSE, fail |-> "linked: previous_ == nullptr"]
  ELSE [ret |-> FALSE, fail |-> NoFail]

\* The mutation of unlink in which only next_ of the removed node is reset.
unlink_keeps_previous(m, n) ==
  LET lk == linked(m, n) IN
  IF lk.fail # NoFail THEN [m |-> m, fail |-> lk.fail, nop |-> FALSE]
  ELSE IF ~lk.ret THEN [m |-> m, fail |-> NoFail, nop |-> TRUE]
  ELSE
    LET m1 == set_next(m, m.previous[n], m.next[n])
        m2 == set_previous(m1, m1.next[n], m1.previous[n])
    IN [m |-> set_next(m2, n, NULL), fail |-> NoFail, nop |-> FALSE]

\* The mutation of unlink that does not update the next pointer of the
\* predecessor.
unlink_no_splice(m, n) ==
  LET lk == linked(m, n) IN
  IF lk.fail # NoFail THEN [m |-> m, fail |-> lk.fail, nop |-> FALSE]
  ELSE IF ~lk.ret THEN [m |-> m, fail |-> NoFail, nop |-> TRUE]
  ELSE
    LET m2 == set_previous(m, m.next[n], m.previous[n])
    IN [m |-> nullify(m2, n), fail |-> NoFail, nop |-> FALSE]

unlink(m, n) ==
  LET lk == linked(m, n) IN
  IF lk.fail # NoFail THEN [m |-> m, fail |-> lk.fail, nop |-> FALSE]
  ELSE IF ~lk.ret
    THEN \* Already unlinked: the two assertions, then return.
      IF m.next[n] # NULL
        THEN [m |-> m, fail |-> "unlink: next_ == nullptr", nop |-> FALSE]
      ELSE IF m.previous[n] # NULL
        THEN [m |-> m, fail |-> "unlink: previous_ == nullptr", nop |-> FALSE]
      ELSE [m |-> m, fail |-> NoFail, nop |-> TRUE]
  ELSE
    LET \* previous_->next_ = next_;
        m1 == set_next(m, m.previous[n], m.next[n])
        \* next_->previous_ = previous_;
        m2 == set_previous(m1, m1.next[n], m1.previous[n])
    IN  \* clear ();
        [m |-> nullify(m2, n), fail |-> NoFail, nop |-> FALSE]

-----------------------------------------------------------------------------
(* static_double_list                                                      *)

\* True while the head of a statically allocated list is still zero filled;
\* the head of a regular list is initialised by the constructor.
uninitialized(m, l) ==
  IF l = StaticHead
    THEN m.previous[l] = NULL /\ m.next[l] = NULL
    ELSE FALSE

head(m, l) == m.next[l]

tail(m, l) == m.previous[l]

\* The mutation of clear that sets only head_.previous.
clear_previous_only(m, l) == set_previous(m, l, l)

clear(m, l) == set_previous(set_next(m, l, l), l, l)

\* The mutation of empty that tests only the lazy initialisation.
empty_only_uninitialized(m, l) == uninitialized(m, l)

empty(m, l) == (m.next[l] = l) \/ uninitialized(m, l)

\* The mutation of begin without the lazy initialisation.
begin_no_init(m, l) == [m |-> m, it |-> m.next[l], init |-> FALSE]

begin(m, l) ==
  LET m1 == IF uninitialized(m, l) THEN clear(m, l) ELSE m
  IN [m |-> m1, it |-> m1.next[l], init |-> uninitialized(m, l)]

end(l) == l

\* The mutation of insert_after that does not update the back pointer of
\* the old successor.
insert_after_no_back_pointer(m, node, after) ==
  IF m.previous[node] # NULL
    THEN [m |-> m, fail |-> "insert_after: node.previous () == nullptr"]
  ELSE IF m.next[node] # NULL
    THEN [m |-> m, fail |-> "insert_after: node.next () == nullptr"]
  ELSE IF m.next[after] = NULL
    THEN [m |-> m, fail |-> "insert_after: after->next () != nullptr"]
  ELSE
    LET m1 == set_previous(m, node, after)
        m2 == set_next(m1, node, m1.next[after])
    IN [m |-> set_next(m2, after, node), fail |-> NoFail]

\* The mutation of insert_after without the assertions on the new node.
insert_after_unchecked(m, node, after) ==
  IF m.next[after] = NULL
    THEN [m |-> m, fail |-> "insert_after: after->next () != nullptr"]
  ELSE
    LET m1 == set_previous(m, node, after)
        m2 == set_next(m1, node, m1.next[after])
        m3 == set_previous(m2, m2.next[after], node)
    IN [m |-> set_next(m3, after, node), fail |-> NoFail]

insert_after(m, node, after) ==
  IF m.previous[node] # NULL
    THEN [m |-> m, fail |-> "insert_after: node.previous () == nullptr"]
  ELSE IF m.next[node] # NULL
    THEN [m |-> m, fail |-> "insert_after: node.next () == nullptr"]
  ELSE IF m.next[after] = NULL
    THEN [m |-> m, fail |-> "insert_after: after->next () != nullptr"]
  ELSE
    LET \* node.previous (after);
        m1 == set_previous(m, node, after)
        \* node.next (after->next ());
        m2 == set_next(m1, node, m1.next[after])
        \* after->next ()->previous (&node);
        m3 == set_previous(m2, m2.next[after], node)
        \* after->next (&node);
    IN [m |-> set_next(m3, after, node), fail |-> NoFail]

\* The mutation of link that runs clear () on every call.
static_link_always_clears(m, l, node) ==
  LET r == insert_after(clear(m, l), node, tail(clear(m, l), l))
  IN [m |-> r.m, fail |-> r.fail, init |-> TRUE]

\* The mutation of link that inserts after the head instead of the tail.
static_link_after_head(m, l, node) ==
  LET init == uninitialized(m, l)
      m1 == IF init THEN clear(m, l) ELSE m
      r == insert_after(m1, node, l)
  IN [m |-> r.m, fail |-> r.fail, init |-> init]

\* static_double_list::link: add the node at the end of the list.
static_link(m, l, node) ==
  LET init == uninitialized(m, l)
      m1 == IF init THEN clear(m, l) ELSE m
      r == insert_after(m1, node, tail(m1, l))
  IN [m |-> r.m, fail |-> r.fail, init |-> init]

-----------------------------------------------------------------------------
(* double_list                                                             *)

\* The mutation of the constructor that does not call clear ().
double_list_ctor_no_clear(m, l) == m

double_list_ctor(m, l) == clear(m, l)

\* The mutation of the destructor without the assertion.
double_list_dtor_unchecked(m, l) == NoFail

double_list_dtor(m, l) ==
  IF empty(m, l) THEN NoFail ELSE "~double_list: empty ()"

\* double_list::link: add the node at the end of the list.
double_link(m, l, node) ==
  LET r == insert_after(m, node, tail(m, l))
  IN [m |-> r.m, fail |-> r.fail, init |-> FALSE]

\* link_tail of either flavour of list.
link_tail(m, l, node) ==
  IF l = StaticHead THEN static_link(m, l, node) ELSE double_link(m, l, node)

\* link_head of either flavour of list: the lazy initialisation of the
\* static flavour, then the node is inserted after the head.
link_head(m, l, node) ==
  LET init == uninitialized(m, l)
      m1 == IF init THEN clear(m, l) ELSE m
      r == insert_after(m1, node, l)
  IN [m |-> r.m, fail |-> r.fail, init |-> init]

-----------------------------------------------------------------------------
(* intrusive_list: the list of the objects that hold the nodes.            *)

\* The address of the object that owns node n, and of its link member.
object_address(n) == n * ObjectSize

\* &(object.*MP): the address of the member at offset d of the object at a.
member_address(a, d) == a + d

\* The mutation of get_pointer that returns the address of the node.
get_pointer_of_node(p, d) == p

\* intrusive_list::get_pointer: the object that holds the member at p.
get_pointer(p, d) == p - d

node_address(n) == member_address(object_address(n), LinkOffset)

Objects == {object_address(n) : n \in Nodes}

\* The node stored at address p.
node_at(p) == CHOOSE n \in Nodes : node_address(n) = p

intrusive_link_tail(m, l, a) ==
  link_tail(m, l, node_at(member_address(a, LinkOffset)))

intrusive_link_head(m, l, a) ==
  link_head(m, l, node_at(member_address(a, LinkOffset)))

\* Unlink the node `link` unless the list is empty; return its object.
intrusive_unlink(m, l, link) ==
  IF empty(m, l)
    THEN [m |-> m, fail |-> NoFail, ret |-> NULL]
    ELSE LET r == unlink(m, link)
         IN [m |-> r.m, fail |-> r.fail,
             ret |-> get_pointer(node_address(link), LinkOffset)]

intrusive_unlink_head(m, l) == intrusive_unlink(m, l, head(m, l))

intrusive_unlink_tail(m, l) == intrusive_unlink(m, l, tail(m, l))

-----------------------------------------------------------------------------
(* Iteration: for (it = begin (); it != end (); ++it).                     *)

RECURSIVE Walk(_, _, _, _)
\* The nodes visited from cur, following next, until the head l (end ()),
\* at most k of them.
Walk(m, l, cur, k) ==
  IF cur = l \/ cur = NULL \/ k = 0
    THEN <<>>
    ELSE <<cur>> \o Walk(m, l, m.next[cur], k - 1)

RECURSIVE WalkEnd(_, _, _, _)
\* Where that walk stops: l when the iteration terminates at end ().
WalkEnd(m, l, cur, k) ==
  IF cur = l \/ cur = NULL \/ k = 0
    THEN cur
    ELSE WalkEnd(m, l, m.next[cur], k - 1)

Iter(m, l) ==
  IF uninitialized(m, l) THEN <<>>
  ELSE Walk(m, l, m.next[l], Cardinality(Cells))

Range(s) == {s[i] : i \in DOMAIN s}

-----------------------------------------------------------------------------
(* The program: calls of the public operations, one call per step.         *)

NoCall == [op |-> "none", list |-> NULL, node |-> NULL,
           init |-> FALSE, nop |-> FALSE, ret |-> FALSE, it |-> NULL,
           obj |-> NULL, steps |-> 0]

Call(op, l, n) == [NoCall EXCEPT !.op = op, !.list = l, !.node = n]

\* A list the callers may use: the static list always, the regular list
\* between its construction and its destruction.
Usable(l) == l = StaticHead \/ life = "alive"

\* A node that still points to the head of a destroyed list: unlink () of it
\* would write to an object whose lifetime has ended, and such calls are
\* left out of the program.
Dangling(n) ==
  life = "destroyed" /\ (previous_[n] = DynamicHead \/ next_[n] = DynamicHead)

Running == failed = NoFail

\* No thread is inside link (): the calls are made one after the other.
NoThreads ==
  [mutex |-> FALSE,
   pc |-> [t \in Threads |-> "none"],
   after |-> [t \in Threads |-> NULL]]

Init ==
  /\ \E p, n \in Pointers :
       \* BSS is zero filled; the storage of the regular list is not.
       /\ previous_ = [c \in Cells |-> IF c = DynamicHead THEN p ELSE NULL]
       /\ next_ = [c \in Cells |-> IF c = DynamicHead THEN n ELSE NULL]
  /\ life = "raw"
  /\ failed = NoFail
  /\ last = NoCall
  /\ threads = NoThreads

Store(m) ==
  /\ previous_' = m.previous
  /\ next_' = m.next

Construct ==
  /\ Running
  /\ life = "raw"
  /\ Store(double_list_ctor(Mem, DynamicHead))
  /\ life' = "alive"
  /\ last' = Call("construct", DynamicHead, NULL)
  /\ UNCHANGED failed
  /\ UNCHANGED threads

Destroy ==
  /\ Running
  /\ life = "alive"
  /\ failed' = double_list_dtor(Mem, DynamicHead)
  /\ life' = IF failed' = NoFail THEN "destroyed" ELSE life
  /\ last' = Call("destroy", DynamicHead, NULL)
  /\ UNCHANGED <<previous_, next_>>
  /\ UNCHANGED threads

LinkTail(l, n) ==
  /\ Running
  /\ Usable(l)
  /\ LET r == link_tail(Mem, l, n) IN
       /\ Store(r.m)
       /\ failed' = r.fail
       /\ last' = [Call("link_tail", l, n) EXCEPT !.init = r.init]
  /\ UNCHANGED life
  /\ UNCHANGED threads

LinkHead(l, n) ==
  /\ Running
  /\ Usable(l)
  /\ LET r == link_head(Mem, l, n) IN
       /\ Store(r.m)
       /\ failed' = r.fail
       /\ last' = [Call("link_head", l, n) EXCEPT !.init = r.init]
  /\ UNCHANGED life
  /\ UNCHANGED threads

Unlink(n) ==
  /\ Running
  /\ ~Dangling(n)
  /\ LET r == unlink(Mem, n) IN
       /\ Store(r.m)
       /\ failed' = r.fail
       /\ last' = [Call("unlink", NULL, n) EXCEPT !.nop = r.nop]
  /\ UNCHANGED life
  /\ UNCHANGED threads

Clear(l) ==
  /\ Running
  /\ Usable(l)
  /\ Store(clear(Mem, l))
  /\ last' = Call("clear", l, NULL)
  /\ UNCHANGED <<life, failed>>
  /\ UNCHANGED threads

Empty(l) ==
  /\ Running
  /\ Usable(l)
  /\ last' = [Call("empty", l, NULL) EXCEPT !.ret = empty(Mem, l)]
  /\ UNCHANGED <<previous_, next_, life, failed>>
  /\ UNCHANGED threads

Begin(l) ==
  /\ Running
  /\ Usable(l)
  /\ LET r == begin(Mem, l) IN
       /\ Store(r.m)
       /\ last' = [Call("begin", l, NULL) EXCEPT !.it = r.it, !.init = r.init]
  /\ UNCHANGED <<life, failed>>
  /\ UNCHANGED threads

End(l) ==
  /\ Running
  /\ Usable(l)
  /\ last' = [Call("end", l, NULL) EXCEPT !.it = end(l)]
  /\ UNCHANGED <<previous_, next_, life, failed>>
  /\ UNCHANGED threads

GetHead(l) ==
  /\ Running
  /\ Usable(l)
  /\ last' = [Call("head", l, NULL) EXCEPT !.it = head(Mem, l)]
  /\ UNCHANGED <<previous_, next_, life, failed>>
  /\ UNCHANGED threads

GetTail(l) ==
  /\ Running
  /\ Usable(l)
  /\ last' = [Call("tail", l, NULL) EXCEPT !.it = tail(Mem, l)]
  /\ UNCHANGED <<previous_, next_, life, failed>>
  /\ UNCHANGED threads

\* operator++ of the iterator that begin () returned, while it differs from
\* end (): node_ = node_->next ().  The field steps counts the increments
\* since begin ().
Increment ==
  /\ Running
  /\ last.op \in {"begin", "++"}
  /\ Usable(last.list)
  /\ last.it \in Cells
  /\ last.it # end(last.list)
  /\ last' = [last EXCEPT !.op = "++", !.it = next_[last.it],
                          !.steps = last.steps + 1]
  /\ UNCHANGED <<previous_, next_, life, failed>>
  /\ UNCHANGED threads

\* operator-- of the iterator that end () returned, until it is at end ()
\* again: node_ = node_->previous ().  The field steps counts the decrements
\* since end ().
Decrement ==
  /\ Running
  /\ last.op \in {"end", "--"}
  /\ Usable(last.list)
  /\ last.it \in Cells
  /\ ~(last.op = "--" /\ last.it = end(last.list))
  /\ last' = [last EXCEPT !.op = "--", !.it = previous_[last.it],
                          !.steps = last.steps + 1]
  /\ UNCHANGED <<previous_, next_, life, failed>>
  /\ UNCHANGED threads

IntrusiveLinkTail(l, a) ==
  /\ Running
  /\ Usable(l)
  /\ LET r == intrusive_link_tail(Mem, l, a) IN
       /\ Store(r.m)
       /\ failed' = r.fail
       /\ last' = [Call("link_tail", l, node_at(member_address(a, LinkOffset)))
                     EXCEPT !.init = r.init, !.obj = a]
  /\ UNCHANGED life
  /\ UNCHANGED threads

IntrusiveLinkHead(l, a) ==
  /\ Running
  /\ Usable(l)
  /\ LET r == intrusive_link_head(Mem, l, a) IN
       /\ Store(r.m)
       /\ failed' = r.fail
       /\ last' = [Call("link_head", l, node_at(member_address(a, LinkOffset)))
                     EXCEPT !.init = r.init, !.obj = a]
  /\ UNCHANGED life
  /\ UNCHANGED threads

IntrusiveUnlinkHead(l) ==
  /\ Running
  /\ Usable(l)
  /\ LET r == intrusive_unlink_head(Mem, l) IN
       /\ Store(r.m)
       /\ failed' = r.fail
       /\ last' = [Call("unlink_head", l, NULL) EXCEPT !.obj = r.ret]
  /\ UNCHANGED life
  /\ UNCHANGED threads

IntrusiveUnlinkTail(l) ==
  /\ Running
  /\ Usable(l)
  /\ LET r == intrusive_unlink_tail(Mem, l) IN
       /\ Store(r.m)
       /\ failed' = r.fail
       /\ last' = [Call("unlink_tail", l, NULL) EXCEPT !.obj = r.ret]
  /\ UNCHANGED life
  /\ UNCHANGED threads

\* The link and unlink operations, the observers, construction, destruction.
NextLink ==
  \/ Construct
  \/ Destroy
  \/ \E l \in Lists, n \in Nodes : LinkTail(l, n)
  \/ \E l \in Lists, n \in Nodes : LinkHead(l, n)
  \/ \E n \in Nodes : Unlink(n)
  \/ \E l \in Lists : Empty(l)
  \/ \E l \in Lists : Begin(l)
  \/ \E l \in Lists : End(l)

Next ==
  \/ NextLink
  \/ \E l \in Lists : Clear(l)

\* The operations of the intrusive list of objects, and unlink () of the
\* link member of an object.
NextIntrusive ==
  \/ Construct
  \/ Destroy
  \/ \E l \in Lists, a \in Objects : IntrusiveLinkTail(l, a)
  \/ \E l \in Lists, a \in Objects : IntrusiveLinkHead(l, a)
  \/ \E l \in Lists : IntrusiveUnlinkHead(l)
  \/ \E l \in Lists : IntrusiveUnlinkTail(l)
  \/ \E n \in Nodes : Unlink(n)

\* Every operation of the lists.
Spec == Init /\ [][Next]_vars

\* The operations other than clear (): the sequences of link and unlink.
SpecLink == Init /\ [][NextLink]_vars

\* The intrusive list.
SpecIntrusive == Init /\ [][NextIntrusive]_vars

\* The sequences of link and unlink, with the accessors head () and tail ()
\* and the increments and decrements of an iterator.
NextIter ==
  \/ NextLink
  \/ \E l \in Lists : GetHead(l)
  \/ \E l \in Lists : GetTail(l)
  \/ Increment
  \/ Decrement

SpecIter == Init /\ [][NextIter]_vars

\* The caller is inside a loop for (it = begin (); it != end (); ++it).
InLoop == last.op \in {"begin", "++"} /\ last.it # end(last.list)

\* Full iterations: a loop that has started runs to its end before the next
\* operation on the lists, and a loop that can increment does increment.
NextLoop ==
  \/ Increment
  \/ ~InLoop /\ NextLink

SpecLoop == Init /\ [][NextLoop]_vars /\ WF_vars(Increment)

-----------------------------------------------------------------------------
(* Two threads in static_double_list::link, statement by statement.        *)

\* The mutation of insert_after_write without the write of the back pointer
\* of the old successor.
insert_after_write_no_back_pointer(m, node, after, k) ==
  CASE k = 1 -> set_previous(m, node, after)
    [] k = 2 -> set_next(m, node, m.next[after])
    [] k = 3 -> m
    [] k = 4 -> set_next(m, after, node)

\* Statement k of the four pointer writes of insert_after.
insert_after_write(m, node, after, k) ==
  CASE k = 1 -> set_previous(m, node, after)
    [] k = 2 -> set_next(m, node, m.next[after])
    [] k = 3 -> set_previous(m, m.next[after], node)
    [] k = 4 -> set_next(m, after, node)

\* The position of a thread at each of the four writes.
WritePc == <<"node.previous", "node.next", "next.previous", "after.next">>

\* The static list is not used yet; each thread is about to call link () of
\* its node, with or without mutual exclusion by the callers.  The regular
\* list is not part of this program and its storage is taken as zero.
InitRace ==
  /\ previous_ = [c \in Cells |-> NULL]
  /\ next_ = [c \in Cells |-> NULL]
  /\ life = "raw"
  /\ failed = NoFail
  /\ last = NoCall
  /\ \E b \in BOOLEAN :
       threads = [mutex |-> b,
                  pc |-> [t \in Threads |-> "start"],
                  after |-> [t \in Threads |-> NULL]]

\* Thread t may take a step: with mutual exclusion, no other thread is
\* inside link ().
Turn(t) ==
  /\ Running
  /\ threads.mutex =>
       \A u \in Threads \ {t} : threads.pc[u] \in {"start", "done"}

Goto(t, pc) == threads' = [threads EXCEPT !.pc[t] = pc]

\* if (uninitialized ())
ThreadTest(t) ==
  /\ Turn(t)
  /\ threads.pc[t] = "start"
  /\ Goto(t, IF uninitialized(Mem, StaticHead) THEN "clear_next" ELSE "tail")
  /\ UNCHANGED <<previous_, next_, life, failed, last>>

\* clear (): head_.next (&head_);
ThreadClearNext(t) ==
  /\ Turn(t)
  /\ threads.pc[t] = "clear_next"
  /\ Store(set_next(Mem, StaticHead, StaticHead))
  /\ Goto(t, "clear_previous")
  /\ UNCHANGED <<life, failed, last>>

\* clear (): head_.previous (&head_);
ThreadClearPrevious(t) ==
  /\ Turn(t)
  /\ threads.pc[t] = "clear_previous"
  /\ Store(set_previous(Mem, StaticHead, StaticHead))
  /\ Goto(t, "tail")
  /\ UNCHANGED <<life, failed, last>>

\* The argument tail () of insert_after (node, tail ()).
ThreadTail(t) ==
  /\ Turn(t)
  /\ threads.pc[t] = "tail"
  /\ threads' = [threads EXCEPT !.pc[t] = "assert",
                                !.after[t] = tail(Mem, StaticHead)]
  /\ UNCHANGED <<previous_, next_, life, failed, last>>

\* The three assertions of insert_after.  With a null after, the third one
\* dereferences a null pointer: the program is taken to stop there.
ThreadAssert(t) ==
  /\ Turn(t)
  /\ threads.pc[t] = "assert"
  /\ LET after == threads.after[t]
         f == IF after = NULL
                THEN "insert_after: after == nullptr"
                ELSE insert_after(Mem, t, after).fail
     IN /\ failed' = f
        /\ Goto(t, IF f = NoFail THEN WritePc[1] ELSE "assert")
  /\ UNCHANGED <<previous_, next_, life, last>>

\* One of the four pointer writes of insert_after.
ThreadWrite(t) ==
  /\ Turn(t)
  /\ \E k \in DOMAIN WritePc :
       /\ threads.pc[t] = WritePc[k]
       /\ Store(insert_after_write(Mem, t, threads.after[t], k))
       /\ Goto(t, IF k < Len(WritePc) THEN WritePc[k + 1] ELSE "done")
  /\ UNCHANGED <<life, failed, last>>

NextRace ==
  \/ \E t \in Threads : ThreadTest(t)
  \/ \E t \in Threads : ThreadClearNext(t)
  \/ \E t \in Threads : ThreadClearPrevious(t)
  \/ \E t \in Threads : ThreadTail(t)
  \/ \E t \in Threads : ThreadAssert(t)
  \/ \E t \in Threads : ThreadWrite(t)

\* Concurrent first uses of the static list.
SpecRace == InitRace /\ [][NextRace]_vars

TypeOK ==
  /\ previous_ \in [Cells -> Pointers]
  /\ next_ \in [Cells -> Pointers]
  /\ life \in {"raw", "alive", "destroyed"}
  /\ failed \in STRING
  /\ last.op \in STRING

-----------------------------------------------------------------------------
(* Vocabulary of the properties.                                           *)

\* A list whose head holds pointers the program wrote.
Constructed(l) == l = StaticHead \/ life # "raw"

IsLinked(m, n) == linked(m, n).ret

\* The elements a full iteration of list l visits.
Elements(m, l) == Range(Iter(m, l))

\* The iteration of l comes back to the head.
Closed(m, l) == WalkEnd(m, l, m.next[l], Cardinality(Cells)) = l

\* The step is a call op (l, n).
Called(op, l, n) == last'.op = op /\ last'.list = l /\ last'.node = n

\* The step is a call of link_tail or link_head on l with node n.
LinkCalled(l, n) == Called("link_tail", l, n) \/ Called("link_head", l, n)

\* Both pointers of cell c are left as they were by the step.
SamePointers(c) == previous_'[c] = previous_[c] /\ next_'[c] = next_[c]

-----------------------------------------------------------------------------
\* C1: after any sequence of link_head, link_tail and unlink, every list is
\* a closed cycle through its head: following next from the head returns to
\* the head, next and previous are inverse on every cell of the cycle, and
\* the cycles hold exactly the linked elements, each in one list.  A static
\* list not used yet has a null head.
C1_ClosedCycle ==
  /\ \A l \in Lists : Constructed(l) =>
       IF uninitialized(Mem, l)
         THEN previous_[l] = NULL /\ next_[l] = NULL /\ Elements(Mem, l) = {}
         ELSE /\ Closed(Mem, l)
              /\ \A c \in Elements(Mem, l) \cup {l} :
                   /\ next_[c] # NULL /\ previous_[c] # NULL
                   /\ previous_[next_[c]] = c
                   /\ next_[previous_[c]] = c
  /\ \A n \in Nodes :
       /\ linked(Mem, n).fail = NoFail
       /\ IsLinked(Mem, n) <=>
            \E l \in Lists : Constructed(l) /\ n \in Elements(Mem, l)
       /\ \A l1, l2 \in Lists :
            (Constructed(l1) /\ Constructed(l2) /\ n \in Elements(Mem, l1)
               /\ n \in Elements(Mem, l2)) => l1 = l2

\* A list of two elements from which a third was unlinked.
C1_Witness ==
  /\ last.op = "unlink" /\ ~last.nop
  /\ Len(Iter(Mem, StaticHead)) = 2
  /\ failed = NoFail

-----------------------------------------------------------------------------
\* C2: link_tail (x) of an unlinked element x appends x to the iteration
\* sequence of the list and link_head (x) prepends it; linking A, B, C to an
\* empty list gives [A, B, C] with link_tail and [C, B, A] with link_head.
C2_LinkOrderStep ==
  \A l \in Lists, x \in Nodes :
    ~IsLinked(Mem, x) =>
      /\ Called("link_tail", l, x) =>
           failed' = NoFail /\ Iter(Mem', l) = Append(Iter(Mem, l), x)
      /\ Called("link_head", l, x) =>
           failed' = NoFail /\ Iter(Mem', l) = <<x>> \o Iter(Mem, l)

C2_ThreeLinks ==
  \A l \in Lists, a, b, c \in Nodes :
    (/\ Constructed(l) /\ life # "destroyed"
     /\ Cardinality({a, b, c}) = 3
     /\ \A x \in {a, b, c} : ~IsLinked(Mem, x)) =>
      LET t1 == link_tail(Mem, l, a)
          t2 == link_tail(t1.m, l, b)
          t3 == link_tail(t2.m, l, c)
          h1 == link_head(Mem, l, a)
          h2 == link_head(h1.m, l, b)
          h3 == link_head(h2.m, l, c)
      IN /\ t3.fail = NoFail
         /\ Iter(t3.m, l) = Iter(Mem, l) \o <<a, b, c>>
         /\ h3.fail = NoFail
         /\ Iter(h3.m, l) = <<c, b, a>> \o Iter(Mem, l)

\* C2: every link step appends (link_tail) or prepends (link_head), and
\* three links in a row give [A, B, C] and [C, B, A].
C2_LinkOrder == []C2_ThreeLinks /\ [][C2_LinkOrderStep]_vars

\* Three elements linked, the last one at the head of a list of two.
C2_Witness ==
  /\ last.op = "link_head" /\ last.node = 3
  /\ Iter(Mem, StaticHead) = <<3, 1, 2>>
  /\ failed = NoFail

-----------------------------------------------------------------------------
\* C3: the zero filled static list is uninitialized, and the first
\* link_head or link_tail on it runs the initialisation of the head and
\* inserts the node: the head and the node then point to each other in both
\* directions.
C3_FirstLinkStep ==
  \A n \in Nodes :
    (uninitialized(Mem, StaticHead) /\ LinkCalled(StaticHead, n)
       /\ failed' = NoFail) =>
      /\ last'.init
      /\ next_'[StaticHead] = n /\ previous_'[StaticHead] = n
      /\ next_'[n] = StaticHead /\ previous_'[n] = StaticHead

\* C3: the zero filled head reports uninitialized, and the first link
\* leaves the head and the node pointing to each other.
C3_FirstLink ==
  /\ uninitialized(Mem, StaticHead)
  /\ [](previous_[StaticHead] = NULL /\ next_[StaticHead] = NULL
          => uninitialized(Mem, StaticHead))
  /\ [][C3_FirstLinkStep]_vars

\* The first link on the static list has run.
C3_Witness ==
  /\ last.op = "link_tail" /\ last.list = StaticHead /\ last.init
  /\ failed = NoFail
  /\ next_[StaticHead] = last.node

-----------------------------------------------------------------------------
\* C4 as stated: on the zero filled static list, the first begin () and
\* the first empty () both leave the head self-referential, with
\* uninitialized () false and empty () true.
C4_BeginOrEmptyInitialises ==
  [][(uninitialized(Mem, StaticHead)
        /\ (Called("begin", StaticHead, NULL)
              \/ Called("empty", StaticHead, NULL))) =>
       /\ ~uninitialized(Mem', StaticHead)
       /\ next_'[StaticHead] = StaticHead
       /\ previous_'[StaticHead] = StaticHead
       /\ empty(Mem', StaticHead)]_vars

\* C4 amended: the zero filled static list is uninitialized; the first
\* begin () leaves the head self-referential, with uninitialized () false and
\* empty () true, and returns end (); empty () on the uninitialized list
\* returns true and writes nothing, so the list stays uninitialized.
C4_FirstBeginStep ==
  uninitialized(Mem, StaticHead) =>
    /\ Called("begin", StaticHead, NULL) =>
         /\ last'.init
         /\ ~uninitialized(Mem', StaticHead)
         /\ next_'[StaticHead] = StaticHead
         /\ previous_'[StaticHead] = StaticHead
         /\ empty(Mem', StaticHead)
         /\ last'.it = end(StaticHead)
         /\ \A n \in Nodes : SamePointers(n)
    /\ Called("empty", StaticHead, NULL) =>
         /\ last'.ret
         /\ Mem' = Mem
         /\ uninitialized(Mem', StaticHead)

\* C4 amended: begin () initialises the uninitialized static list, empty ()
\* only reports it empty.
C4_BeginInitialises ==
  /\ uninitialized(Mem, StaticHead)
  /\ [][C4_FirstBeginStep]_vars

\* begin () has run the lazy initialisation of the static list.
C4_Witness ==
  /\ last.op = "begin" /\ last.list = StaticHead /\ last.init
  /\ next_[StaticHead] = StaticHead

-----------------------------------------------------------------------------
\* C5: right after its construction, before any other call, the regular
\* list has a head that points to itself in both directions, is empty and
\* is not uninitialized, whatever its storage held before.
C5_ConstructedEmpty ==
  last.op = "construct" =>
    /\ next_[DynamicHead] = DynamicHead
    /\ previous_[DynamicHead] = DynamicHead
    /\ empty(Mem, DynamicHead)
    /\ ~uninitialized(Mem, DynamicHead)
    /\ Iter(Mem, DynamicHead) = <<>>

\* The regular list has just been constructed.
C5_Witness == last.op = "construct" /\ life = "alive"

-----------------------------------------------------------------------------
\* C6: after every operation of a sequence of link and unlink operations,
\* the full iterations of the lists visit as many elements as are linked,
\* and every linked element is visited exactly once, by one list.
Visits(m, n) ==
  {<<l, i>> \in Lists \X (1 .. Cardinality(Cells)) :
     Constructed(l) /\ i \in DOMAIN Iter(m, l) /\ Iter(m, l)[i] = n}

C6_IterationCountsLinked ==
  /\ \A n \in Nodes :
       /\ linked(Mem, n).fail = NoFail
       /\ Cardinality(Visits(Mem, n)) = IF IsLinked(Mem, n) THEN 1 ELSE 0
  /\ Cardinality({n \in Nodes : IsLinked(Mem, n)})
       = (IF Constructed(DynamicHead) THEN Len(Iter(Mem, DynamicHead)) ELSE 0)
           + Len(Iter(Mem, StaticHead))

\* Two elements are linked after a third was unlinked.
C6_Witness ==
  /\ last.op = "unlink" /\ ~last.nop
  /\ Cardinality({n \in Nodes : IsLinked(Mem, n)}) = 2
  /\ Len(Iter(Mem, StaticHead)) = 1
  /\ life = "alive" /\ Len(Iter(Mem, DynamicHead)) = 1

-----------------------------------------------------------------------------
\* C7: unlink () twice is unlink () once: for every node, in every state,
\* the second call takes the not-linked branch, fails no assertion and
\* leaves every pointer as the first call left it; a call on a node that is
\* not linked changes no pointer.
C7_UnlinkTwice ==
  \A n \in Nodes :
    LET once == unlink(Mem, n)
        twice == unlink(once.m, n)
    IN /\ once.fail = NoFail
       /\ twice.fail = NoFail
       /\ twice.nop
       /\ twice.m = once.m

C7_UnlinkNopStep ==
  \A n \in Nodes :
    (Called("unlink", NULL, n) /\ ~IsLinked(Mem, n)) =>
      /\ last'.nop
      /\ failed' = NoFail
      /\ Mem' = Mem

\* C7: a second unlink () is a no-op, in every state and on every step.
C7_UnlinkIdempotent == []C7_UnlinkTwice /\ [][C7_UnlinkNopStep]_vars

\* unlink () was called on a node that is not linked, beside a linked one.
C7_Witness ==
  /\ last.op = "unlink" /\ last.nop
  /\ failed = NoFail
  /\ \E n \in Nodes : IsLinked(Mem, n)

-----------------------------------------------------------------------------
\* C8: of the link operations on the static list only the one that finds it
\* uninitialized runs the initialisation of the head; a link that follows
\* finds uninitialized () false, does not reset the head, and every element
\* iterated before it, the one of the first link included, is still linked
\* and iterated after it.
C8_LinkStep ==
  \A n \in Nodes :
    LinkCalled(StaticHead, n) =>
      /\ last'.init <=> uninitialized(Mem, StaticHead)
      /\ ~uninitialized(Mem', StaticHead)
      /\ ~uninitialized(Mem, StaticHead) =>
           \A e \in Elements(Mem, StaticHead) :
             e \in Elements(Mem', StaticHead) /\ IsLinked(Mem', e)
      /\ (last.op \in {"link_tail", "link_head"} /\ last.list = StaticHead
            /\ last.init /\ failed' = NoFail) =>
           /\ ~last'.init
           /\ Elements(Mem', StaticHead) = {last.node, n}
           /\ IsLinked(Mem', last.node)

\* C8: the head is initialised by the first link only, and later links
\* keep the elements linked before them.
C8_InitialisedOnce == [][C8_LinkStep]_vars

\* The second link on the static list, right after the one that
\* initialised it.
C8_Witness ==
  /\ last.op = "link_tail" /\ last.list = StaticHead /\ ~last.init
  /\ failed = NoFail
  /\ Iter(Mem, StaticHead) = <<1, 2>>
  /\ last.node = 2

-----------------------------------------------------------------------------
\* The node of a link call already has a non-null pointer.
AlreadyLinked(n) == previous_[n] # NULL \/ next_[n] # NULL

\* C9 as stated: linking a node that has a non-null pointer fails an
\* assertion before any pointer of the list or of the node is written.
C9_DoubleLinkWritesNothing ==
  [][\A l \in Lists, n \in Nodes :
       (LinkCalled(l, n) /\ AlreadyLinked(n)) =>
         failed' # NoFail /\ Mem' = Mem]_vars

\* C9 amended: linking a node that has a non-null pointer fails an
\* assertion of insert_after before any pointer of a node or of an
\* initialised head is written; on a static list that is still
\* uninitialized the initialisation of the head comes first, so the head is
\* self-referential when the assertion fails.
C9_DoubleLinkStep ==
  \A l \in Lists, n \in Nodes :
    (LinkCalled(l, n) /\ AlreadyLinked(n)) =>
      /\ failed' \in {"insert_after: node.previous () == nullptr",
                      "insert_after: node.next () == nullptr"}
      /\ \A c \in Cells \ {l} : SamePointers(c)
      /\ IF uninitialized(Mem, l)
           THEN last'.init /\ next_'[l] = l /\ previous_'[l] = l
           ELSE ~last'.init /\ SamePointers(l)

\* C9 amended: a link of an already linked node fails the assertion and
\* writes at most the lazy initialisation of the head.
C9_DoubleLinkDetected == [][C9_DoubleLinkStep]_vars

\* A link of a linked node has failed the assertion.
C9_Witness ==
  /\ last.op = "link_tail"
  /\ failed = "insert_after: node.previous () == nullptr"
  /\ IsLinked(Mem, last.node)

-----------------------------------------------------------------------------
\* C10: the destructor of the regular list fails its assertion when an
\* element is still iterated by the list, and does not when empty () is
\* true; the list is destroyed only in the second case.
C10_DestroyChecked ==
  last.op = "destroy" =>
    /\ Elements(Mem, DynamicHead) # {} =>
         failed = "~double_list: empty ()" /\ life = "alive"
    /\ empty(Mem, DynamicHead) =>
         failed = NoFail /\ life = "destroyed"
    /\ Elements(Mem, DynamicHead) # {} \/ empty(Mem, DynamicHead)

\* The destructor ran on a list that holds an element.
C10_Witness ==
  /\ last.op = "destroy"
  /\ failed # NoFail
  /\ Len(Iter(Mem, DynamicHead)) >= 1

-----------------------------------------------------------------------------
\* The objects a full iteration of the intrusive list l yields.
IntrusiveIter(m, l) ==
  [i \in DOMAIN Iter(m, l) |->
     get_pointer(node_address(Iter(m, l)[i]), LinkOffset)]

Front(s) == SubSeq(s, 1, Len(s) - 1)

\* C11: unlink_head () and unlink_tail () of a list that is not empty remove
\* the first and the last element from the iteration sequence, return the
\* object that owns it and leave its node unlinked; on an empty list, the
\* static list not used yet included, they return null and write nothing.
C11_UnlinkEndStep ==
  \A l \in Lists :
    LET s == Iter(Mem, l) IN
    /\ Called("unlink_head", l, NULL) =>
         /\ failed' = NoFail
         /\ IF s # <<>>
              THEN /\ Iter(Mem', l) = Tail(s)
                   /\ last'.obj = object_address(Head(s))
                   /\ ~IsLinked(Mem', Head(s))
              ELSE last'.obj = NULL /\ Mem' = Mem
    /\ Called("unlink_tail", l, NULL) =>
         /\ failed' = NoFail
         /\ IF s # <<>>
              THEN /\ Iter(Mem', l) = Front(s)
                   /\ last'.obj = object_address(s[Len(s)])
                   /\ ~IsLinked(Mem', s[Len(s)])
              ELSE last'.obj = NULL /\ Mem' = Mem

C11_UnlinkEnds == [][C11_UnlinkEndStep]_vars

\* unlink_tail () took the last of three objects.
C11_Witness ==
  /\ last.op = "unlink_tail" /\ last.list = StaticHead
  /\ last.obj = object_address(3)
  /\ Iter(Mem, StaticHead) = <<1, 2>>

-----------------------------------------------------------------------------
\* C12: the address of an object is recovered exactly: for every address a
\* and offset d the link member is at a + d and get_pointer gives a back;
\* linking the object at a stores the node at a + d, the iteration of the
\* list then yields a at the place of that node, and unlink_head () and
\* unlink_tail () return the address the iteration yields first and last.
MaxAddress == object_address(MaxNodes) + LinkOffset

C12_Arithmetic ==
  \A a \in 0 .. MaxAddress, d \in 0 .. LinkOffset :
    /\ member_address(a, d) = a + d
    /\ get_pointer(member_address(a, d), d) = a

C12_RoundTripStep ==
  \A l \in Lists :
    LET s == IntrusiveIter(Mem, l) IN
    /\ \A a \in Objects :
         (last'.obj = a /\ failed' = NoFail) =>
           /\ (last'.op \in {"link_tail", "link_head"} /\ last'.list = l) =>
                node_address(last'.node) = a + LinkOffset
           /\ (last'.op = "link_tail" /\ last'.list = l) =>
                IntrusiveIter(Mem', l) = Append(s, a)
           /\ (last'.op = "link_head" /\ last'.list = l) =>
                IntrusiveIter(Mem', l) = <<a>> \o s
    /\ (Called("unlink_head", l, NULL) /\ s # <<>>) => last'.obj = Head(s)
    /\ (Called("unlink_tail", l, NULL) /\ s # <<>>) => last'.obj = s[Len(s)]

-----------------------------------------------------------------------------
\* Node n is linked and following next from it leads to the head of l.
LinkedInto(m, l, n) ==
  IsLinked(m, n) /\ WalkEnd(m, l, m.next[n], Cardinality(Cells)) = l

\* C13: empty () is true exactly when no element is linked into the list:
\* true when head_.next is the head or the static head is uninitialized,
\* false whenever a linked element leads to the head; and empty () writes no
\* pointer.
C13_EmptyState ==
  /\ \A l \in Lists : Constructed(l) =>
       /\ empty(Mem, l) <=> ~ \E n \in Nodes : LinkedInto(Mem, l, n)
       /\ (next_[l] = l \/ uninitialized(Mem, l)) => empty(Mem, l)
  /\ last.op = "empty" =>
       (last.ret <=> ~ \E n \in Nodes : LinkedInto(Mem, last.list, n))

C13_EmptyStep ==
  \A l \in Lists : Called("empty", l, NULL) => Mem' = Mem

C13_EmptyIffNoElement == []C13_EmptyState /\ [][C13_EmptyStep]_vars

\* empty () returned false on the static list that holds an element.
C13_Witness ==
  /\ last.op = "empty" /\ last.list = StaticHead /\ ~last.ret
  /\ Len(Iter(Mem, StaticHead)) = 2

-----------------------------------------------------------------------------
\* C14: clear () makes the head point to itself in both directions, so that
\* empty () is true right after it, and writes nothing else: the pointers of
\* the elements that were linked keep their values.
C14_ClearStep ==
  \A l \in Lists :
    Called("clear", l, NULL) =>
      /\ next_'[l] = l /\ previous_'[l] = l
      /\ empty(Mem', l)
      /\ failed' = NoFail
      /\ \A c \in Cells \ {l} : SamePointers(c)
      /\ \A n \in Elements(Mem, l) : IsLinked(Mem', n)

C14_ClearFrame == [][C14_ClearStep]_vars

\* clear () of a list of two elements, which still point to the head.
C14_Witness ==
  /\ last.op = "clear" /\ last.list = StaticHead
  /\ empty(Mem, StaticHead)
  /\ previous_[1] = StaticHead /\ next_[1] = 2 /\ next_[2] = StaticHead

-----------------------------------------------------------------------------
\* What head () and tail () return for a list that is not empty: the first
\* and the last element of the iteration.
ExtremalWhenNotEmpty(l) ==
  LET s == Iter(Mem, l) IN
    ~empty(Mem, l) =>
      /\ s # <<>>
      /\ head(Mem, l) = s[1]
      /\ tail(Mem, l) = s[Len(s)]

\* What the last call of head () or tail () returned.
Returned(op, l, v) == (last.op = op /\ last.list = l) => last.it = v

-----------------------------------------------------------------------------
C16_BeginStep ==
  \A l \in Lists :
    Called("begin", l, NULL) =>
      LET s == Iter(Mem', l) IN
        /\ last'.it = IF s = <<>> THEN end(l) ELSE s[1]
        /\ (last'.it = end(l)) <=> empty(Mem', l)
        /\ (last'.it = end(l)) <=> empty(Mem, l)
        /\ last'.it # end(l) => last'.it \in Nodes /\ IsLinked(Mem', last'.it)
        /\ last'.init <=> uninitialized(Mem, l)
        /\ uninitialized(Mem, l) =>
             /\ next_'[l] = l /\ previous_'[l] = l
             /\ last'.it = end(l)
        /\ ~uninitialized(Mem, l) => Mem' = Mem
        /\ \A c \in Cells \ {l} : SamePointers(c)

C16_EndStep ==
  \A l \in Lists :
    Called("end", l, NULL) => last'.it = l /\ Mem' = Mem

\* C16: begin () returns an iterator at the first element, equal to end ()
\* exactly when the list is empty; on a static list not used yet it first
\* makes the head self-referential and returns end ().  end () is the head
\* and writes nothing.
C16_BeginEnd == [][C16_BeginStep /\ C16_EndStep]_vars

\* begin () initialised the static list and returned end ().
C16_Witness ==
  /\ last.op = "begin" /\ last.list = StaticHead
  /\ last.init /\ last.it = end(StaticHead)
  /\ next_[StaticHead] = StaticHead

-----------------------------------------------------------------------------
\* linked () of a node is true exactly when both of its pointers are not
\* null, and its assertion holds.
C17_LinkedState ==
  \A n \in Nodes :
    /\ linked(Mem, n).fail = NoFail
    /\ IsLinked(Mem, n) <=> (previous_[n] # NULL /\ next_[n] # NULL)

\* unlink () of a linked node leaves both of its pointers null, and a
\* link_tail or link_head of the node to any list in use then passes the
\* assertions of insert_after.
C17_UnlinkStep ==
  \A n \in Nodes :
    (Called("unlink", NULL, n) /\ IsLinked(Mem, n)) =>
      /\ ~last'.nop
      /\ failed' = NoFail
      /\ previous_'[n] = NULL /\ next_'[n] = NULL
      /\ ~IsLinked(Mem', n)
      /\ \A l \in Lists : Usable(l) =>
           /\ link_tail(Mem', l, n).fail = NoFail
           /\ link_head(Mem', l, n).fail = NoFail

\* C17: linked () is true exactly when both pointers are not null; unlink ()
\* of a linked node leaves both null, so that linked () is false and the
\* node can be linked again.
C17_UnlinkResets == []C17_LinkedState /\ [][C17_UnlinkStep]_vars

\* Node 1 was unlinked from the static list, which keeps node 2.
C17_Witness ==
  /\ last.op = "unlink" /\ ~last.nop /\ last.node = 1
  /\ previous_[1] = NULL /\ next_[1] = NULL
  /\ next_[StaticHead] = 2

-----------------------------------------------------------------------------
\* The head of the static list is null in both pointers or in none, and the
\* head of the regular list is never reported uninitialized and holds no null
\* pointer once constructed.
C18_HeadState ==
  /\ (next_[StaticHead] = NULL) <=> (previous_[StaticHead] = NULL)
  /\ ~uninitialized(Mem, DynamicHead)
  /\ life # "raw" => next_[DynamicHead] # NULL /\ previous_[DynamicHead] # NULL

C18_Step ==
  /\ ~uninitialized(Mem, StaticHead) => ~uninitialized(Mem', StaticHead)
  /\ ( \/ \E n \in Nodes : LinkCalled(StaticHead, n)
       \/ Called("begin", StaticHead, NULL)
       \/ Called("clear", StaticHead, NULL) ) => ~uninitialized(Mem', StaticHead)
  /\ \A l \in Lists, n \in Nodes :
       (Called("unlink", NULL, n) /\ Constructed(l) /\ Iter(Mem, l) = <<n>>) =>
         next_'[l] = l /\ previous_'[l] = l

\* C18: a static list that has left the uninitialized state, by its first
\* link_head, link_tail, begin () or clear (), never returns to it: unlink ()
\* of the last element leaves the head self-referential, not null.  The
\* regular list is never uninitialized.
C18_InitialisedForever == []C18_HeadState /\ [][C18_Step]_vars

\* The only element of the static list was unlinked: the head points to
\* itself.
C18_Witness ==
  /\ last.op = "unlink" /\ ~last.nop /\ life = "raw"
  /\ next_[StaticHead] = StaticHead /\ previous_[StaticHead] = StaticHead
  /\ \A n \in Nodes : ~IsLinked(Mem, n)

-----------------------------------------------------------------------------
\* An iteration is under way: the last call is begin () or an increment.
Iterating == last.op \in {"begin", "++"}

\* After k increments the iterator is at element k + 1 of the iteration, or
\* at end () when k is the number n of elements linked into the list, and
\* not before.
C19_IterationState ==
  Iterating =>
    LET l == last.list
        n == Len(Iter(Mem, l))
        s == Iter(Mem, l) \o <<end(l)>>
    IN /\ n = Cardinality({x \in Nodes : LinkedInto(Mem, l, x)})
       /\ last.steps <= n
       /\ last.it = s[last.steps + 1]
       /\ (last.it = end(l)) <=> (last.steps = n)
       /\ last.it # end(l) => ENABLED Increment

\* begin () called again after an iteration starts at the first element of
\* the same sequence.
C19_RestartStep ==
  \A l \in Lists :
    (Iterating /\ last.list = l /\ Called("begin", l, NULL)) =>
      /\ Iter(Mem', l) = Iter(Mem, l)
      /\ last'.steps = 0
      /\ last'.it = (Iter(Mem, l) \o <<end(l)>>)[1]

\* C19: a forward iteration from begin () reaches end () after exactly n
\* increments, n being the number of elements linked into the list, in every
\* state reached by link and unlink; the loop terminates, and a second
\* begin () visits the same sequence.
C19_IterationTerminates ==
  /\ []C19_IterationState
  /\ [][C19_RestartStep]_vars
  /\ (last.op = "begin") ~> (Iterating /\ last.it = end(last.list))

\* The third increment of an iteration of three elements reached end ().
C19_Witness ==
  /\ last.op = "++" /\ last.list = StaticHead
  /\ last.steps = 3 /\ last.it = end(StaticHead)
  /\ Len(Iter(Mem, StaticHead)) = 3

-----------------------------------------------------------------------------
\* link_previous (node) of the links at: node is inserted before at.
link_previous(m, at, node) ==
  LET pred == m.previous[at]
      m1 == set_next(m, node, at)
      m2 == set_previous(m1, node, pred)
      m3 == set_next(m2, pred, node)
  IN set_previous(m3, at, node)

\* The memory with the two directions exchanged.
Mirror(m) == [previous |-> m.next, next |-> m.previous]

\* The pointers, as <<field, cell>>, on which two memories differ.
Changed(m1, m2) ==
  {<<"previous", c>> : c \in {x \in Cells : m1.previous[x] # m2.previous[x]}}
    \cup {<<"next", c>> : c \in {x \in Cells : m1.next[x] # m2.next[x]}}

\* A position of a list: a linked node, or the initialised head of a list in
\* use.
Position(c) ==
  \/ c \in Nodes /\ IsLinked(Mem, c)
  \/ c \in Lists /\ Usable(c) /\ Constructed(c) /\ ~uninitialized(Mem, c)

\* In every state, inserting any unlinked node after or before any position
\* passes the assertions, changes the four pointers and no other, and the
\* two insertions are mirror images.
C20_InsertState ==
  \A node \in Nodes, at \in Cells :
    (~IsLinked(Mem, node) /\ Position(at)) =>
      LET r == insert_after(Mem, node, at)
          succ == next_[at]
          pred == previous_[at]
          b == link_previous(Mem, at, node)
      IN /\ r.fail = NoFail
         /\ Changed(Mem, r.m) = {<<"next", at>>, <<"previous", node>>,
                                 <<"next", node>>, <<"previous", succ>>}
         /\ r.m.next[at] = node /\ r.m.previous[node] = at
         /\ r.m.next[node] = succ /\ r.m.previous[succ] = node
         /\ Changed(Mem, b) = {<<"previous", at>>, <<"next", node>>,
                               <<"previous", node>>, <<"next", pred>>}
         /\ b = Mirror(insert_after(Mirror(Mem), node, at).m)

\* A link_tail or link_head that passes the assertions on an initialised
\* list changes the four pointers of its insert_after and no other.
C20_InsertStep ==
  \A l \in Lists, n \in Nodes :
    (LinkCalled(l, n) /\ failed' = NoFail /\ ~uninitialized(Mem, l)) =>
      LET at == IF last'.op = "link_tail" THEN tail(Mem, l) ELSE l
      IN Changed(Mem, Mem') = {<<"next", at>>, <<"previous", n>>,
                               <<"next", n>>, <<"previous", next_[at]>>}

\* C20: inserting a node after a position changes exactly four pointers, the
\* next of the position, the previous and next of the node and the previous
\* of the old successor, and no other pointer of any node or head;
\* link_previous is the mirror image.
C20_FourPointers == []C20_InsertState /\ [][C20_InsertStep]_vars

\* link_head inserted node 3 between the head and the two elements of the
\* static list.
C20_Witness ==
  /\ last.op = "link_head" /\ last.list = StaticHead /\ last.node = 3
  /\ failed = NoFail
  /\ Iter(Mem, StaticHead) = <<3, 1, 2>>

-----------------------------------------------------------------------------
\* The sequence s without x.
Without(s, x) == SelectSeq(s, LAMBDA e : e # x)

\* The nodes an iterator positioned on y visits, y first, until end () of l.
From(m, l, y) == Walk(m, l, y, Cardinality(Cells))

\* The iterator positioned on y reaches end () of l.
ReachesEnd(m, l, y) == WalkEnd(m, l, y, Cardinality(Cells)) = l

\* unlink () of a linked node x writes the two pointers of x, the next of
\* its predecessor and the previous of its successor, and no other; every
\* list iterates the same elements in the same order, x left out; and an
\* iterator on any other element y continues through the elements that
\* followed y, x left out, to end ().
C21_UnlinkStep ==
  \A x \in Nodes :
    (Called("unlink", NULL, x) /\ IsLinked(Mem, x)) =>
      /\ Changed(Mem, Mem') =
           {<<"previous", x>>, <<"next", x>>,
            <<"next", previous_[x]>>, <<"previous", next_[x]>>}
      /\ Cardinality({l \in Lists : Constructed(l) /\ x \in Elements(Mem, l)}) = 1
      /\ \A l \in Lists : Constructed(l) =>
           /\ Iter(Mem', l) = Without(Iter(Mem, l), x)
           /\ \A y \in Elements(Mem, l) \ {x} :
                /\ IsLinked(Mem', y)
                /\ ReachesEnd(Mem', l, y)
                /\ From(Mem', l, y) = Without(From(Mem, l, y), x)

\* C21: unlink () of a linked element x removes exactly x from the iteration
\* and keeps the order of the others; it changes only the two pointers of x,
\* the next of its predecessor and the previous of its successor, so that an
\* iterator on any other node stays on the cycle and continues to end ().
C21_UnlinkFrame == [][C21_UnlinkStep]_vars

\* Node 2 was unlinked from between nodes 1 and 3 of the static list.
C21_Witness ==
  /\ last.op = "unlink" /\ last.node = 2 /\ ~last.nop
  /\ ~IsLinked(Mem, 2)
  /\ Iter(Mem, StaticHead) = <<1, 3>>
  /\ previous_[3] = 1

-----------------------------------------------------------------------------
\* operator++ and operator-- as functions of the iterator's node.
increment(m, it) == m.next[it]
decrement(m, it) == m.previous[it]

RECURSIVE WalkBack(_, _, _, _)
\* The nodes that decrements visit from cur until end () of l, at most k.
WalkBack(m, l, cur, k) ==
  IF cur = l \/ cur = NULL \/ k = 0
    THEN <<>>
    ELSE <<cur>> \o WalkBack(m, l, decrement(m, cur), k - 1)

Reverse(s) == [i \in 1 .. Len(s) |-> s[Len(s) + 1 - i]]

\* Incrementing and then decrementing, or the reverse, an iterator at any
\* position of l, end () included, returns it to the same node.
RoundTrip(l) ==
  \A c \in Elements(Mem, l) \cup {end(l)} :
    /\ increment(Mem, c) \in Cells
    /\ decrement(Mem, increment(Mem, c)) = c
    /\ decrement(Mem, c) \in Cells
    /\ increment(Mem, decrement(Mem, c)) = c

\* Decrements from end () visit the elements in the reverse of the forward
\* order, then end ().
Backwards(l) ==
  /\ decrement(Mem, end(l)) \in Cells
  /\ WalkBack(Mem, l, decrement(Mem, end(l)), Cardinality(Cells))
       = Reverse(Iter(Mem, l))
  /\ (last.op = "--" /\ last.list = l) =>
       last.it = (Reverse(Iter(Mem, l)) \o <<end(l)>>)[last.steps]

\* The statement of C22 as written: in every reachable state of every list.
C22_EveryState ==
  \A l \in Lists : Constructed(l) => RoundTrip(l) /\ Backwards(l)

\* C22: in every state reached by link and unlink, for every list but the
\* static list not used yet, incrementing and then decrementing an iterator,
\* or the reverse, returns it to the same node, and decrements from end ()
\* visit the elements in the reverse of the forward order.  For the static
\* list not used yet the decrement of end () is null.
C22_Bidirectional ==
  \A l \in Lists : Constructed(l) =>
    IF uninitialized(Mem, l)
      THEN /\ decrement(Mem, end(l)) = NULL /\ increment(Mem, end(l)) = NULL
           /\ (last.op = "--" /\ last.list = l) => last.it = NULL
      ELSE RoundTrip(l) /\ Backwards(l)

\* Three decrements from end () of a list of three elements are at its first
\* element.
C22_Witness ==
  /\ last.op = "--" /\ last.list = StaticHead /\ last.steps = 3
  /\ Len(Iter(Mem, StaticHead)) = 3
  /\ last.it = Iter(Mem, StaticHead)[1]

-----------------------------------------------------------------------------
\* An element that clear () discarded: linked () is true of x but no list
\* iterates it.
Stale(m, x) ==
  IsLinked(m, x) /\ \A l \in Lists : Constructed(l) => x \notin Elements(m, l)

\* unlink () of a stale element leaves the heads, the elements the lists
\* iterate and so the iterations as they were.
C23_StaleUnlinkStep ==
  \A x \in Nodes :
    (Called("unlink", NULL, x) /\ Stale(Mem, x)) =>
      \A l \in Lists : Constructed(l) =>
        /\ SamePointers(l)
        /\ \A n \in Elements(Mem, l) : SamePointers(n)
        /\ Iter(Mem', l) = Iter(Mem, l)

\* link_tail or link_head of a stale element fails the assertion of
\* insert_after on the node's pointers.
C23_StaleRelinkStep ==
  \A x \in Nodes, l \in Lists :
    (LinkCalled(l, x) /\ Stale(Mem, x)) => failed' # NoFail

C23_StaleRelinkDetected == [][C23_StaleRelinkStep]_vars

\* C23: after clear () of a list that held elements, unlink () of a discarded
\* element, also after new elements were linked, modifies neither the head
\* nor any element currently linked, and linking a discarded element again
\* without unlink () fails the assertion.
C23_StaleHarmless == [][C23_StaleUnlinkStep /\ C23_StaleRelinkStep]_vars

\* After clear () of the list of 1 and 2 and link_tail of 3, unlink () of 1
\* passed every assertion: the static list iterates the discarded 2, and 3 is
\* linked and not iterated.
C23_Witness ==
  /\ last.op = "unlink" /\ last.node = 1 /\ ~last.nop /\ failed = NoFail
  /\ Iter(Mem, StaticHead) = <<2>>
  /\ tail(Mem, StaticHead) = 3
  /\ previous_[3] = StaticHead /\ next_[3] = StaticHead

-----------------------------------------------------------------------------
\* The failures of the assertions of linked () and of the branch of unlink ()
\* for a node that is not linked.
HalfLinkedFailures ==
  {"linked: next_ == nullptr", "linked: previous_ == nullptr",
   "unlink: next_ == nullptr", "unlink: previous_ == nullptr"}

\* Cell c has one null pointer and one that is not null.
HalfLinked(m, c) == (m.previous[c] = NULL) # (m.next[c] = NULL)

\* C24: in every state reached by link, unlink, clear and begin, no node and
\* no static head has exactly one null pointer, so that the assertions of
\* linked () and of unlink () of a node that is not linked never fail.
C24_NeverHalfLinked ==
  /\ \A c \in Nodes \cup {StaticHead} : ~HalfLinked(Mem, c)
  /\ \A n \in Nodes :
       /\ linked(Mem, n).fail = NoFail
       /\ unlink(Mem, n).fail = NoFail
  /\ failed \notin HalfLinkedFailures

\* unlink () of node 1, which is not linked, passed its assertions and
\* returned, while node 2 is linked and the static list was cleared.
C24_Witness ==
  /\ last.op = "unlink" /\ last.node = 1 /\ last.nop /\ failed = NoFail
  /\ previous_[1] = NULL /\ next_[1] = NULL
  /\ IsLinked(Mem, 2) /\ empty(Mem, StaticHead)
  /\ ~uninitialized(Mem, StaticHead)

-----------------------------------------------------------------------------
\* No thread is inside link ().
Quiescent == \A t \in Threads : threads.pc[t] \in {"start", "done"}

\* The nodes whose link () has returned.
Done == {t \in Threads : threads.pc[t] = "done"}

\* The static list is a cycle through its head in both directions that
\* iterates exactly the linked nodes.
Consistent(m) ==
  /\ uninitialized(m, StaticHead) \/ Closed(m, StaticHead)
  /\ \A c \in Elements(m, StaticHead) \cup {StaticHead} :
       ~uninitialized(m, StaticHead) =>
         /\ m.next[c] # NULL /\ m.previous[m.next[c]] = c
         /\ m.previous[c] # NULL /\ m.next[m.previous[c]] = c
  /\ Elements(m, StaticHead) = {n \in Nodes : IsLinked(m, n)}

\* A linked element is missing from the iteration, or the cycle is broken.
Broken(m) == ~Consistent(m)

\* C25, with mutual exclusion: when each link () runs alone from its test of
\* uninitialized () to its last write, no assertion fails, and whenever no
\* thread is inside link () the list is consistent and iterates exactly the
\* nodes whose link () has returned.  The four writes, taken one by one, are
\* insert_after.  Without mutual exclusion a broken state is reachable: see
\* C25_Witness.
C25_AtomicLinkSafe ==
  /\ threads.mutex =>
       /\ failed = NoFail
       /\ Quiescent =>
            /\ Consistent(Mem)
            /\ Elements(Mem, StaticHead) = Done
  /\ \A t \in Threads :
       (threads.mutex /\ threads.pc[t] = WritePc[1]) =>
         LET a == threads.after[t]
             m1 == insert_after_write(Mem, t, a, 1)
             m2 == insert_after_write(m1, t, a, 2)
             m3 == insert_after_write(m2, t, a, 3)
         IN insert_after_write(m3, t, a, 4) = insert_after(Mem, t, a).m

\* Without mutual exclusion, both first uses have returned with no assertion
\* failed, and a linked node is missing from the iteration.
C25_Witness ==
  /\ ~threads.mutex
  /\ Done = Threads
  /\ failed = NoFail
  /\ \E n \in Threads : IsLinked(Mem, n) /\ n \notin Elements(Mem, StaticHead)
  /\ Broken(Mem)

====
